---- MODULE Spec2Model ----
(***************************************************************************)
(* Smart Home IoT web frontend: the MQTT client wrapper (SmartHomeMQTT),   *)
(* its callback registry, the inbound message router and the Dashboard's   *)
(* per-device "last update" / online status bookkeeping.                   *)
(*                                                                         *)
(* JavaScript values are modelled as follows.                              *)
(*   - undefined is the string Undefined; a value is falsy when it is      *)
(*     Undefined or the empty string.                                      *)
(*   - a decoded sensor envelope is a record                               *)
(*       [device, hasItems, items, sensor, value]                          *)
(*     where hasItems says whether data.items is truthy (an array; an      *)
(*     empty array is truthy in JavaScript) and, when it is not, the       *)
(*     envelope itself is the single item.                                 *)
(*   - a raw payload is either the text of a JSON value (wf = TRUE, data   *)
(*     the value it encodes) or a text JSON.parse rejects (wf = FALSE).    *)
(***************************************************************************)
EXTENDS Integers, Sequences, FiniteSets, TLC

(* ------------------------------ bounds -------------------------------- *)

\* connect() calls in one run
MaxClients == 2
\* on() calls that register a listener in one run
MaxRegs == 2
\* items in one sensor batch
MaxItems == 2
\* publishCommand() calls in one run
MaxCmds == 2
\* last clock reading of a run, in milliseconds
MaxNow == 65000

(* ------------------------------ config -------------------------------- *)

TopicSensors == "iot/sensors"
TopicAlarmState == "iot/alarm/state"
TopicPersonCount == "iot/home/person_count"
TopicWebCommand == "iot/web/command"

\* CONFIG.topics
ConfigTopics == {TopicSensors, TopicAlarmState, TopicPersonCount, TopicWebCommand}

(* --------------------------- JavaScript values ------------------------ *)

Undefined == "undefined"

Truthy(v) == v \notin {Undefined, ""}

\* a || b
OrElse(a, b) == IF Truthy(a) THEN a ELSE b

\* Values whose type matters (sensor values, topic payloads, command
\* arguments) carry it: typeof v is v.type, except that typeof null is
\* "object". An object is the sequence of its <<key, value>> properties in
\* insertion order.
JUndefined == [type |-> "undefined"]

JNull == [type |-> "null"]

JNum(n) == [type |-> "number", n |-> n]

JStr(s) == [type |-> "string", s |-> s]

JBool(b) == [type |-> "boolean", b |-> b]

JObj(props) == [type |-> "object", props |-> props]

\* A number that is not an integer, as the fraction num / den with den > 0; the
\* fractions drawn have a power of two for den, so that they, and their
\* products with 255, are numbers a double holds exactly.
JFrac(num, den) == [type |-> "number", num |-> num, den |-> den]

\* The numerator and denominator of a number that has a value.
Numer(v) == IF "n" \in DOMAIN v THEN v.n ELSE v.num

Denom(v) == IF "n" \in DOMAIN v THEN 1 ELSE v.den

\* NaN, a number that has no value
JNaN == [type |-> "number", nan |-> TRUE]

IsNaNValue(v) == v.type = "number" /\ "nan" \in DOMAIN v

\* typeof v
TypeOf(v) == IF v.type = "null" THEN "object" ELSE v.type

\* v.key: the property's value, undefined when v has no such property
Get(v, key) ==
    IF v.type = "object" /\ \E i \in 1..Len(v.props) : v.props[i][1] = key
    THEN v.props[CHOOSE i \in 1..Len(v.props) : v.props[i][1] = key][2]
    ELSE JUndefined

\* truthiness of a typed value
TruthyValue(v) ==
    CASE v.type \in {"undefined", "null"} -> FALSE
      [] v.type = "number" -> ~IsNaNValue(v) /\ Numer(v) # 0
      [] v.type = "string" -> v.s # ""
      [] v.type = "boolean" -> v.b
      [] OTHER -> TRUE

\* v has a property of its own named key
HasOwn(v, key) == v.type = "object" /\ \E i \in 1..Len(v.props) : v.props[i][1] = key

\* Converting v to a primitive (ToString, ToNumber) raises a TypeError: v is an
\* object whose own toString property, which a decoded JSON value cannot make
\* callable, hides Object.prototype.toString, while valueOf returns v itself.
ToPrimitiveThrows(v) == HasOwn(v, "toString")

\* The characters of the strings drawn as inputs.
Chars(s) ==
    CASE s = "7" -> <<"7">>
      [] s = "12" -> <<"1", "2">>
      [] s = "abc" -> <<"a", "b", "c">>
      [] s = "7abc" -> <<"7", "a", "b", "c">>
      [] s = " 7" -> <<" ", "7">>
      [] s = "" -> <<>>

\* String(v), as characters, for a v that converts without raising
ToStringChars(v) ==
    CASE v.type = "string" -> Chars(v.s)
      [] v.type = "boolean" -> IF v.b THEN <<"t", "r", "u", "e">> ELSE <<"f", "a", "l", "s", "e">>
      [] v.type = "null" -> <<"n", "u", "l", "l">>
      [] v.type = "undefined" -> <<"u", "n", "d", "e", "f", "i", "n", "e", "d">>
      [] OTHER -> <<"[", "o", "b", "j", "e", "c", "t", " ", "O", "b", "j", "e", "c", "t", "]">>

DigitChars == <<"0", "1", "2", "3", "4", "5", "6", "7", "8", "9">>

IsDigit(c) == \E i \in 1..Len(DigitChars) : DigitChars[i] = c

DigitValue(c) == (CHOOSE i \in 1..Len(DigitChars) : DigitChars[i] = c) - 1

RECURSIVE SkipSpaces(_)
SkipSpaces(cs) == IF cs # <<>> /\ Head(cs) = " " THEN SkipSpaces(Tail(cs)) ELSE cs

\* The value of the longest run of decimal digits cs starts with, after acc.
RECURSIVE LeadingDigits(_, _)
LeadingDigits(cs, acc) ==
    IF cs # <<>> /\ IsDigit(Head(cs))
    THEN LeadingDigits(Tail(cs), 10 * acc + DigitValue(Head(cs)))
    ELSE acc

\* parseInt(v, 10) for a v that converts to a string without raising: leading
\* white space is skipped, then a sign, then decimal digits are read until
\* the first other character; NaN when there is no digit to read
ParseInt(v) ==
    LET trimmed == SkipSpaces(ToStringChars(v))
        signed == trimmed # <<>> /\ Head(trimmed) \in {"-", "+"}
        body == IF signed THEN Tail(trimmed) ELSE trimmed
    IN IF body = <<>> \/ ~IsDigit(Head(body)) THEN JNaN
       ELSE JNum((IF signed /\ Head(trimmed) = "-" THEN 0 - 1 ELSE 1) * LeadingDigits(body, 0))

\* isNaN(v) for a v that converts to a number without raising: a string is a
\* number when, trimmed, it is empty or all of it is a signed decimal integer
IsNaN(v) ==
    CASE v.type = "number" -> IsNaNValue(v)
      [] v.type = "string" ->
            LET trimmed == SkipSpaces(Chars(v.s))
                body == IF trimmed # <<>> /\ Head(trimmed) \in {"-", "+"}
                        THEN Tail(trimmed) ELSE trimmed
            IN /\ trimmed # <<>>
               /\ \/ body = <<>>
                  \/ \E i \in 1..Len(body) : ~IsDigit(body[i])
      [] v.type \in {"boolean", "null"} -> FALSE
      [] OTHER -> TRUE

\* JSON.stringify(v) for an object v of primitive and flat object values: the
\* text of the value with the properties whose value is undefined left out
JsonStringify(v) ==
    LET keep(o) == JObj(SelectSeq(o.props, LAMBDA pr : pr[2].type # "undefined"))
        inner == [i \in 1..Len(v.props) |->
                     <<v.props[i][1],
                       IF v.props[i][2].type = "object" THEN keep(v.props[i][2])
                       ELSE v.props[i][2]>>]
    IN [wf |-> TRUE, data |-> keep(JObj(inner))]

(* ------------------------------ inputs -------------------------------- *)

\* Listeners handed to on(): "thrower" throws whenever it is invoked, "plain"
\* returns normally, "dash" is the application's wiring of the Dashboard:
\* (item) => dashboard.updateSensor(item) for sensor data, and likewise
\* updateAlarmState and updatePersonCount for the alarm state and person count.
Listeners == {"dash", "plain", "thrower"}

Throws(cb) == cb = "thrower"

\* Event names handed to on(): the five keys of _callbacks, a name _callbacks
\* has no property for, and a name it inherits a property for from
\* Object.prototype (a function, which is truthy and has no push method).
EventKinds == {"onConnect", "onDisconnect", "onSensorData", "onAlarmState", "onPersonCount"}

InheritedNames == {"toString"}

EventNames == EventKinds \cup {"onFoo"} \cup InheritedNames

\* Items seen in sensor payloads: a door reading without a device of its own,
\* one of a kind updateSensor has no case for, one that names its device, and
\* one whose device is the empty string.
Items ==
    {[sensor |-> "DS1", device |-> Undefined, value |-> JNum(1)],
     [sensor |-> "ZZZ", device |-> Undefined, value |-> JNum(1)],
     [sensor |-> "DS1", device |-> "PI2", value |-> JNum(1)],
     [sensor |-> "DS1", device |-> "", value |-> JNum(1)]}

EnvelopeDevices == {Undefined, "PI1"}

RECURSIVE SeqsUpTo(_, _)
SeqsUpTo(S, n) ==
    IF n = 0 THEN {<<>>}
    ELSE LET shorter == SeqsUpTo(S, n - 1)
         IN shorter \cup {Append(s, x) : s \in shorter, x \in S}

\* Decoded sensor envelopes: batches of up to MaxItems items, and flat ones.
Batches(its) ==
    {[device |-> d, hasItems |-> TRUE, items |-> b, sensor |-> Undefined, value |-> JUndefined] :
        d \in EnvelopeDevices, b \in SeqsUpTo(its, MaxItems)}

FlatEnvelopes ==
    {[device |-> d, hasItems |-> FALSE, items |-> <<>>, sensor |-> s, value |-> JNum(1)] :
        d \in EnvelopeDevices, s \in {"DS1", "ZZZ"}}

\* Texts JSON.parse rejects.
MalformedTexts == {"{oops", ""}

Malformed == {[wf |-> FALSE, text |-> x] : x \in MalformedTexts}

WellFormed(D) == {[wf |-> TRUE, data |-> d] : d \in D}

\* Payloads on every topic: on the sensor topic, flat envelopes and batches of
\* one repeated item.
RawPayloads(topic) ==
    Malformed
    \cup IF topic = TopicSensors
         THEN WellFormed(FlatEnvelopes
                         \cup Batches({[sensor |-> "DS1", device |-> Undefined, value |-> JNum(1)]}))
         ELSE WellFormed({JObj(<< <<"state", JStr("ARMED")>> >>)})

\* Payloads on the sensor topic, with every batch of the items above.
SensorPayloads == Malformed \cup WellFormed(FlatEnvelopes \cup Batches(Items))

\* The state labels the alarm topic carries.
AlarmStates == {"DISARMED", "ARMING", "ARMED", "GRACE", "ALARMING"}

\* Decoded payloads of the alarm topic: each label bare and wrapped, and null.
AlarmPayloads ==
    {JStr(S) : S \in AlarmStates}
    \cup {JObj(<< <<"state", JStr(S)>> >>) : S \in AlarmStates}
    \cup {JNull}

\* Decoded payloads of the person-count topic: numbers, strings, wrappers with
\* and without a usable count, other JSON values, and objects that have a
\* property named toString.
PersonPayloads ==
    {JNum(7), JNum(0), JStr("7"), JStr("12"), JStr("abc"), JStr("7abc"), JStr(" 7"), JStr(""),
     JObj(<< <<"count", JNum(7)>> >>), JObj(<< <<"count", JStr("abc")>> >>),
     JObj(<< <<"count", JNull>> >>), JObj(<<>>), JNull, JBool(TRUE),
     JObj(<< <<"toString", JNum(1)>> >>),
     JObj(<< <<"count", JObj(<< <<"toString", JNum(1)>> >>)>> >>)}

\* Payloads of the two overview topics.
OverviewPayloads(topic) ==
    Malformed \cup WellFormed(IF topic = TopicAlarmState THEN AlarmPayloads ELSE PersonPayloads)

\* The sensor kinds whose value is read as a boolean, and the values they carry.
BooleanLikeSensors == {"DPIR1", "DPIR2", "DPIR3", "DS1", "DS2", "DL", "DB"}

BooleanLikeValues ==
    {JNum(1), JBool(TRUE), JNum(0), JBool(FALSE), JNum(2), JStr("1"), JNull, JObj(<<>>)}

ViewItems == [sensor : BooleanLikeSensors, device : {Undefined, "PI1"}, value : BooleanLikeValues]

\* The channels of a colour: absent, 0, 1, and fractions between them.
ChannelFractions ==
    {JNum(0), JNum(1), JFrac(1, 2), JFrac(1, 4), JFrac(3, 4), JFrac(1, 512), JFrac(1, 256),
     JFrac(255, 256), JFrac(511, 512)}

\* The object with the channels r, g, b given; JUndefined leaves a channel out.
Colour(r, g, b) ==
    JObj(SelectSeq(<< <<"r", r>>, <<"g", g>>, <<"b", b>> >>, LAMBDA pr : pr[2] # JUndefined))

\* The values of the colour light: every fraction on all three channels, every
\* mix of absent, 0, 1/2 and 1, and values that are not a colour.
RGBValues ==
    {Colour(f, f, f) : f \in ChannelFractions}
    \cup {Colour(r, g, b) : r \in {JUndefined, JNum(1), JFrac(1, 2)},
                            g \in {JUndefined, JNum(0), JFrac(1, 2)},
                            b \in {JUndefined, JNum(0), JNum(1)}}
    \cup {JNull, JNum(1)}

RGBItems == [sensor : {"BRGB"}, device : {Undefined, "PI3"}, value : RGBValues]

\* The params argument of publishCommand: left out, or the object a control passes.
\* countdown-timer items: the action and the display string ride on the item
TimerActions == {"show_time", "blink_start", "blink_stop", "tick", Undefined}

TimerDisplays == {Undefined, "", "01:30"}

TimerItems == [sensor : {"4SD"}, device : {Undefined, "PI2"}, value : {JUndefined},
               action : TimerActions, display : TimerDisplays]

CommandParams == {JUndefined, JObj(<< <<"pin", JStr("1234")>> >>)}

\* Topics a message may arrive on: the configured ones and one that is not.
InboundTopics == ConfigTopics \cup {"iot/other"}

\* Device identifiers the Dashboard may be handed.
DeviceIds == {"PI1", "PI2", "PI3", "PI4"}

\* Clock readings (Date.now(), in milliseconds) advance by one of these.
ClockSteps == {5000, 29999, 30000}

(* ------------------------------- state -------------------------------- *)

VARIABLES
    client,      \* this.client: index of the newest transport client, 0 for null
    online,      \* per transport client: its last lifecycle event was "connect"
    subs,        \* per transport client: the topics subscribed on it
    connected,   \* this.connected
    callbacks,   \* this._callbacks: event kind -> listeners in registration order
    lastOp,      \* the operation or handler that ran last, with its inputs
    effects,     \* client.subscribe and _fire calls made by the last operation, in order
    fired,       \* listener invocations made by the last operation, in order
    uncaught,    \* the last handler let an exception escape to its caller
    published,   \* client.publish calls made so far, in order
    attempts,    \* publishCommand calls made so far, with this.client and this.connected at the call
    nextCmd,     \* publishCommand calls made so far
    now,         \* Date.now()
    lastUpdate,  \* Dashboard.lastUpdate: device -> time of its last reading, or Null
    piStatus,    \* text of the <pi>-status elements
    statusCalls, \* _updatePiStatus calls made by the last operation, in order
    dispatched,  \* sensor updaters called by updateSensor in the last operation
    timer,       \* the timer-display element: its text and its timer-blink class
    lastTimerAction \* history: the action of the newest timer item with a recognised action

vars == <<client, online, subs, connected, callbacks, lastOp, effects, fired,
          uncaught, published, attempts, nextCmd, now, lastUpdate, piStatus,
          statusCalls, dispatched, timer, lastTimerAction>>

connVars == <<client, online, subs, connected>>

cmdVars == <<published, attempts, nextCmd>>

dashVars == <<now, lastUpdate, piStatus, timer>>

(* ------------------------------ Dashboard ----------------------------- *)

\* null, as stored in lastUpdate
Null == 0 - 1

\* Date.now() - date.getTime() is in milliseconds
MsPerSecond == 1000

\* a device is shown online while its last reading is less than this many seconds old
OnlineThreshold == 30

\* The devices refreshTimestamps walks through, in order.
TickDevices == <<"PI1", "PI2", "PI3">>

\* device.toLowerCase()
ToLower(device) ==
    CASE device = "PI1" -> "pi1"
      [] device = "PI2" -> "pi2"
      [] device = "PI3" -> "pi3"
      [] device = "PI4" -> "pi4"
      [] OTHER -> device

\* The page's status badges, pi1-status, pi2-status and pi3-status, by prefix.
StatusElements == {"pi1", "pi2", "pi3"}

\* The Dashboard's fields and page, with the calls of the running operation.
DashState == [lastUpdate |-> lastUpdate, piStatus |-> piStatus,
              statusCalls |-> <<>>, dispatched |-> <<>>,
              timer |-> timer, lastTimerAction |-> lastTimerAction]

\* _updatePiStatus(device, online)
UpdatePiStatus(st, device, isOnline) ==
    [st EXCEPT !.piStatus = IF ToLower(device) \in DOMAIN @
                            THEN [@ EXCEPT ![ToLower(device)] =
                                      IF isOnline THEN "Online" ELSE "Offline"]
                            ELSE @,
               !.statusCalls = Append(@, [device |-> device, online |-> isOnline])]

\* The updater updateSensor's switch selects for a sensor kind, Undefined for none.
SensorUpdater(sensor) ==
    CASE sensor \in {"DHT1", "DHT2", "DHT3"} -> "_updateDHT"
      [] sensor \in {"DPIR1", "DPIR2", "DPIR3"} -> "_updateMotion"
      [] sensor \in {"DS1", "DS2"} -> "_updateDoor"
      [] sensor \in {"DUS1", "DUS2"} -> "_updateDistance"
      [] sensor \in {"DL", "DB"} -> "_updateOnOff"
      [] sensor = "BRGB" -> "_updateRGB"
      [] sensor = "GSG" -> "_updateGyroscope"
      [] sensor = "4SD" -> "_updateTimer"
      [] OTHER -> Undefined

\* IsActive that takes every truthy value for active
IsActiveTruthy(value) == TruthyValue(value)

\* value === 1 || value === true
IsActive(value) == value = JNum(1) \/ value = JBool(TRUE)

\* ScaleChannel with Math.floor in place of Math.round
ScaleChannelFloor(c) == (Numer(c) * 255) \div Denom(c)

\* Math.round(c * 255) for a number c: the integer nearest to the product, the
\* greater one when it lies half way between two
ScaleChannel(c) == (2 * Numer(c) * 255 + Denom(c)) \div (2 * Denom(c))

\* Math.round((value[key] || 0) * 255), for a channel that is a number or absent
Channel(value, key) ==
    IF TruthyValue(Get(value, key)) THEN ScaleChannel(Get(value, key)) ELSE 0

\* _updateRGB(value) raises a TypeError: typeof null is "object", and reading
\* value.r of null raises
RGBThrows(value) == value.type = "null"

\* The colour _updateRGB sets as the preview's background, rgb(r,g,b); none
\* when value is not an object
RGBState(value) ==
    IF TypeOf(value) # "object" \/ RGBThrows(value) THEN JUndefined
    ELSE JObj(<< <<"r", JNum(Channel(value, "r"))>>,
                 <<"g", JNum(Channel(value, "g"))>>,
                 <<"b", JNum(Channel(value, "b"))>> >>)

\* The state _updateMotion, _updateDoor, _updateOnOff and _updateRGB derive
\* from the value.
UpdaterState(sensor, value) ==
    CASE SensorUpdater(sensor) = "_updateMotion" ->
            JStr(IF IsActive(value) THEN "MOTION" ELSE "CLEAR")
      [] SensorUpdater(sensor) = "_updateDoor" ->
            JStr(IF IsActive(value) THEN "OPEN" ELSE "CLOSED")
      [] SensorUpdater(sensor) = "_updateOnOff" ->
            JStr(IF IsActive(value) THEN "ON" ELSE "OFF")
      [] SensorUpdater(sensor) = "_updateRGB" -> RGBState(value)
      [] OTHER -> JUndefined

\* item.<name>: undefined where the item has no such property
ItemField(item, name) == IF name \in DOMAIN item THEN item[name] ELSE Undefined

\* the actions _updateTimer acts on
RecognisedTimerActions == {"show_time", "blink_start", "blink_stop"}

\* _updateTimer(item) with a show_time that leaves the timer-blink class alone
UpdateTimerShowKeepsBlink(st, item) ==
    LET action == ItemField(item, "action")
    IN CASE action = "show_time" ->
               [st EXCEPT !.timer.text = OrElse(ItemField(item, "display"), "00:00"),
                          !.lastTimerAction = action]
         [] action = "blink_start" ->
               [st EXCEPT !.timer = [text |-> "00:00", blink |-> "added"],
                          !.lastTimerAction = action]
         [] action = "blink_stop" ->
               [st EXCEPT !.timer = [text |-> "00:00", blink |-> "removed"],
                          !.lastTimerAction = action]
         [] OTHER -> st

\* _updateTimer(item); blink is what was last done to the timer-blink class,
\* undefined while the page's own class list stands
UpdateTimer(st, item) ==
    LET action == ItemField(item, "action")
    IN CASE action = "show_time" ->
               [st EXCEPT !.timer = [text |-> OrElse(ItemField(item, "display"), "00:00"),
                                     blink |-> "removed"],
                          !.lastTimerAction = action]
         [] action = "blink_start" ->
               [st EXCEPT !.timer = [text |-> "00:00", blink |-> "added"],
                          !.lastTimerAction = action]
         [] action = "blink_stop" ->
               [st EXCEPT !.timer = [text |-> "00:00", blink |-> "removed"],
                          !.lastTimerAction = action]
         [] OTHER -> st

\* updateSensor(item) raises: the updater it calls does
UpdateSensorThrows(item) == SensorUpdater(item.sensor) = "_updateRGB" /\ RGBThrows(item.value)

\* updateSensor(item) that skips the liveness update for a sensor kind its
\* switch has no case for
UpdateSensorKnownOnly(st, item, t) ==
    LET seen == IF Truthy(item.device) /\ SensorUpdater(item.sensor) # Undefined
                THEN UpdatePiStatus([st EXCEPT !.lastUpdate[item.device] = t],
                                    item.device, TRUE)
                ELSE st
        shown == IF SensorUpdater(item.sensor) = "_updateTimer"
                 THEN UpdateTimer(seen, item)
                 ELSE seen
    IN IF SensorUpdater(item.sensor) # Undefined
       THEN [shown EXCEPT !.dispatched =
                 Append(@, [updater |-> SensorUpdater(item.sensor), sensor |-> item.sensor,
                            state |-> UpdaterState(item.sensor, item.value)])]
       ELSE shown

\* updateSensor(item), at clock reading t
UpdateSensor(st, item, t) ==
    LET seen == IF Truthy(item.device)
                THEN UpdatePiStatus([st EXCEPT !.lastUpdate[item.device] = t],
                                    item.device, TRUE)
                ELSE st
        shown == IF SensorUpdater(item.sensor) = "_updateTimer"
                 THEN UpdateTimer(seen, item)
                 ELSE seen
    IN IF SensorUpdater(item.sensor) # Undefined
       THEN [shown EXCEPT !.dispatched =
                 Append(@, [updater |-> SensorUpdater(item.sensor), sensor |-> item.sensor,
                            state |-> UpdaterState(item.sensor, item.value)])]
       ELSE shown

\* const state = typeof data === "string" ? data : (data.state || data)
AlarmStateOf(data) ==
    IF TypeOf(data) = "string" THEN data
    ELSE IF TruthyValue(Get(data, "state")) THEN Get(data, "state")
    ELSE data

\* updateAlarmState(data) raises a TypeError: reading data.state of null, or
\* converting to text a state that has no primitive value
AlarmStateThrows(data) == data.type = "null" \/ ToPrimitiveThrows(AlarmStateOf(data))

\* updateAlarmState(data): the state shown in the alarm-state element
UpdateAlarmState(st, data) ==
    IF AlarmStateThrows(data) THEN st
    ELSE [st EXCEPT !.dispatched =
              Append(@, [updater |-> "updateAlarmState", sensor |-> Undefined,
                         state |-> AlarmStateOf(data)])]

\* count, as updatePersonCount's three branches choose it, for a data on which
\* none of them raises
PersonCountOf(data) ==
    IF TypeOf(data) = "number" THEN data
    ELSE IF /\ TypeOf(data) = "object"
            /\ data.type # "null"
            /\ Get(data, "count").type \notin {"null", "undefined"}
    THEN Get(data, "count")
    ELSE ParseInt(data)

\* updatePersonCount(data) raises a TypeError: parseInt(data, 10) or
\* isNaN(count) is given an object that has no primitive value
PersonCountThrows(data) ==
    IF TypeOf(data) = "number" THEN FALSE
    ELSE IF /\ TypeOf(data) = "object"
            /\ data.type # "null"
            /\ Get(data, "count").type \notin {"null", "undefined"}
    THEN ToPrimitiveThrows(Get(data, "count"))
    ELSE ToPrimitiveThrows(data)

\* isNaN(count) ? "?" : count
PersonCountText(data) ==
    IF IsNaN(PersonCountOf(data)) THEN JStr("?") ELSE PersonCountOf(data)

\* updatePersonCount(data): the _setText("person-count", ...) call
UpdatePersonCount(st, data) ==
    IF PersonCountThrows(data) THEN st
    ELSE [st EXCEPT !.dispatched =
              Append(@, [updater |-> "updatePersonCount", sensor |-> Undefined,
                         state |-> PersonCountText(data)])]

\* The Dashboard listener raises when called for this event with this data.
DashThrows(event, data) ==
    CASE event = "onSensorData" -> UpdateSensorThrows(data)
      [] event = "onAlarmState" -> AlarmStateThrows(data)
      [] event = "onPersonCount" -> PersonCountThrows(data)
      [] OTHER -> FALSE

\* SecAgo with Math.round in place of Math.floor
SecAgoRounded(t, last) == (2 * (t - last) + MsPerSecond) \div (2 * MsPerSecond)

\* Math.floor((Date.now() - this.lastUpdate[pi].getTime()) / 1000)
SecAgo(t, last) == (t - last) \div MsPerSecond

\* RefreshFrom that touches a badge only when the device's status changes
RECURSIVE RefreshChangedFrom(_, _, _)
RefreshChangedFrom(st, i, t) ==
    IF i > Len(TickDevices) THEN st
    ELSE LET pi == TickDevices[i]
             isOnline == SecAgo(t, st.lastUpdate[pi]) < OnlineThreshold
         IN RefreshChangedFrom(
                IF st.lastUpdate[pi] # Null
                   /\ st.piStatus[ToLower(pi)] # (IF isOnline THEN "Online" ELSE "Offline")
                THEN UpdatePiStatus(st, pi, isOnline)
                ELSE st,
                i + 1, t)

\* refreshTimestamps(), at clock reading t: the forEach over PI1, PI2, PI3
RECURSIVE RefreshFrom(_, _, _)
RefreshFrom(st, i, t) ==
    IF i > Len(TickDevices) THEN st
    ELSE LET pi == TickDevices[i]
         IN RefreshFrom(IF st.lastUpdate[pi] # Null
                        THEN UpdatePiStatus(st, pi, SecAgo(t, st.lastUpdate[pi]) < OnlineThreshold)
                        ELSE st,
                        i + 1, t)

RefreshTimestamps(st, t) == RefreshFrom(st, 1, t)

\* The listeners' effect on the Dashboard: "dash" passes what it is called
\* with to updateSensor, updateAlarmState or updatePersonCount, by event.
RECURSIVE ApplyCalls(_, _, _)
ApplyCalls(st, calls, t) ==
    IF calls = <<>> THEN st
    ELSE LET call == Head(calls)
         IN ApplyCalls(IF call.cb # "dash" THEN st
                       ELSE IF call.event = "onSensorData" THEN UpdateSensor(st, call.data, t)
                       ELSE IF call.event = "onAlarmState" THEN UpdateAlarmState(st, call.data)
                       ELSE IF call.event = "onPersonCount" THEN UpdatePersonCount(st, call.data)
                       ELSE st,
                       Tail(calls), t)

SetDash(st) ==
    /\ lastUpdate' = st.lastUpdate
    /\ piStatus' = st.piStatus
    /\ statusCalls' = st.statusCalls
    /\ dispatched' = st.dispatched
    /\ timer' = st.timer
    /\ lastTimerAction' = st.lastTimerAction
    /\ UNCHANGED now

(* ----------------------------- the registry --------------------------- *)

RECURSIVE SumOver(_, _)
SumOver(f, S) ==
    IF S = {} THEN 0
    ELSE LET x == CHOOSE y \in S : TRUE IN f[x] + SumOver(f, S \ {x})

Registrations == SumOver([k \in EventKinds |-> Len(callbacks[k])], EventKinds)

\* cb(data) raises: the listener always does, or it is the Dashboard's and
\* the Dashboard method it calls raises on this data
ThrowsOn(cb, event, data) == Throws(cb) \/ (cb = "dash" /\ DashThrows(event, data))

\* Fire that walks the list from its last listener to its first
FireReversed(cbs, event, data, eix) ==
    LET throwers == {i \in 1..Len(cbs) : ThrowsOn(cbs[i], event, data)}
        stop == IF throwers = {} THEN 1
                ELSE CHOOSE i \in throwers : \A j \in throwers : i >= j
        count == IF cbs = <<>> THEN 0 ELSE Len(cbs) - stop + 1
    IN [effects |-> <<[call |-> "_fire", event |-> event, data |-> data]>>,
        calls |-> [n \in 1..count |->
                      [event |-> event, cb |-> cbs[Len(cbs) - n + 1], pos |-> Len(cbs) - n + 1,
                       eix |-> eix, data |-> data]],
        threw |-> throwers # {}]

\* _fire(event, data), the eix-th _fire of the running operation: forEach over
\* the list; an exception thrown by a listener leaves forEach, so the listeners
\* after it are not called.
Fire(cbs, event, data, eix) ==
    LET throwers == {i \in 1..Len(cbs) : ThrowsOn(cbs[i], event, data)}
        stop == IF throwers = {} THEN Len(cbs)
                ELSE CHOOSE i \in throwers : \A j \in throwers : i <= j
    IN [effects |-> <<[call |-> "_fire", event |-> event, data |-> data]>>,
        calls |-> [i \in 1..stop |->
                      [event |-> event, cb |-> cbs[i], pos |-> i, eix |-> eix, data |-> data]],
        threw |-> throwers # {}]

\* On that gives a name without a list a list of its own
OnCreating(event, cb) ==
    /\ Registrations < MaxRegs
    /\ cb = "dash" => event \in {"onSensorData", "onAlarmState", "onPersonCount"}
    /\ callbacks' = [k \in DOMAIN callbacks \cup {event} |->
                        IF k = event
                        THEN (IF k \in DOMAIN callbacks THEN Append(callbacks[k], cb) ELSE <<cb>>)
                        ELSE callbacks[k]]
    /\ lastOp' = [op |-> "on", event |-> event, cb |-> cb]
    /\ effects' = <<>>
    /\ fired' = <<>>
    /\ uncaught' = FALSE
    /\ SetDash(DashState)
    /\ UNCHANGED <<connVars, cmdVars>>

\* on(event, callback): this._callbacks[event] is the kind's array, undefined
\* for a name with no property, or an inherited function, on which calling
\* push raises a TypeError
On(event, cb) ==
    /\ Registrations < MaxRegs
    /\ cb = "dash" => event \in {"onSensorData", "onAlarmState", "onPersonCount"}
    /\ callbacks' = IF event \in DOMAIN callbacks
                    THEN [callbacks EXCEPT ![event] = Append(@, cb)]
                    ELSE callbacks
    /\ lastOp' = [op |-> "on", event |-> event, cb |-> cb]
    /\ effects' = <<>>
    /\ fired' = <<>>
    /\ uncaught' = (event \in InheritedNames)
    /\ SetDash(DashState)
    /\ UNCHANGED <<connVars, cmdVars>>

(* ----------------------------- connection ----------------------------- *)

\* connect(): a new transport client with the four handlers attached to it
Connect ==
    /\ Len(online) < MaxClients
    /\ client' = Len(online) + 1
    /\ online' = Append(online, FALSE)
    /\ subs' = Append(subs, {})
    /\ lastOp' = [op |-> "connect()"]
    /\ effects' = <<>>
    /\ fired' = <<>>
    /\ uncaught' = FALSE
    /\ SetDash(DashState)
    /\ UNCHANGED <<connected, callbacks, cmdVars>>

\* SubscribeTopics with every configured topic, the outbound one included
SubscribeAllTopics == <<TopicSensors, TopicAlarmState, TopicPersonCount, TopicWebCommand>>

\* Topics the "connect" handler subscribes to, in call order.
SubscribeTopics == <<TopicSensors, TopicAlarmState, TopicPersonCount>>

\* client.on("connect", ...), run for transport client c
TConnect(c) ==
    /\ c \in 1..Len(online)
    /\ ~online[c]
    /\ online' = [online EXCEPT ![c] = TRUE]
    /\ connected' = TRUE
    /\ subs' = [subs EXCEPT ![client] = @ \cup {SubscribeTopics[i] : i \in 1..Len(SubscribeTopics)}]
    /\ LET r == Fire(callbacks["onConnect"], "onConnect", Undefined, 1)
       IN /\ effects' = [i \in 1..Len(SubscribeTopics) |->
                            [call |-> "subscribe", client |-> client, topic |-> SubscribeTopics[i]]]
                        \o r.effects
          /\ fired' = r.calls
          /\ uncaught' = r.threw
    /\ lastOp' = [op |-> "connect", c |-> c]
    /\ SetDash(DashState)
    /\ UNCHANGED <<client, callbacks, cmdVars>>

\* TClose that leaves this.connected as it was
TCloseKeep(c) ==
    /\ c \in 1..Len(online)
    /\ online' = [online EXCEPT ![c] = FALSE]
    /\ LET r == Fire(callbacks["onDisconnect"], "onDisconnect", Undefined, 1)
       IN /\ effects' = r.effects
          /\ fired' = r.calls
          /\ uncaught' = r.threw
    /\ lastOp' = [op |-> "close", c |-> c]
    /\ SetDash(DashState)
    /\ UNCHANGED <<client, subs, connected, callbacks, cmdVars>>

\* client.on("close", ...), run for transport client c
TClose(c) ==
    /\ c \in 1..Len(online)
    /\ online' = [online EXCEPT ![c] = FALSE]
    /\ connected' = FALSE
    /\ LET r == Fire(callbacks["onDisconnect"], "onDisconnect", Undefined, 1)
       IN /\ effects' = r.effects
          /\ fired' = r.calls
          /\ uncaught' = r.threw
    /\ lastOp' = [op |-> "close", c |-> c]
    /\ SetDash(DashState)
    /\ UNCHANGED <<client, subs, callbacks, cmdVars>>

\* TError that treats the error as the end of the connection
TErrorDisconnects(c) ==
    /\ c \in 1..Len(online)
    /\ connected' = FALSE
    /\ LET r == Fire(callbacks["onDisconnect"], "onDisconnect", Undefined, 1)
       IN /\ effects' = r.effects
          /\ fired' = r.calls
          /\ uncaught' = r.threw
    /\ lastOp' = [op |-> "error", c |-> c]
    /\ SetDash(DashState)
    /\ UNCHANGED <<client, online, subs, callbacks, cmdVars>>

\* client.on("error", ...), run for transport client c
TError(c) ==
    /\ c \in 1..Len(online)
    /\ lastOp' = [op |-> "error", c |-> c]
    /\ effects' = <<>>
    /\ fired' = <<>>
    /\ uncaught' = FALSE
    /\ SetDash(DashState)
    /\ UNCHANGED <<connVars, callbacks, cmdVars>>

(* ------------------------------ the router ---------------------------- *)

\* JSON.parse(payload.toString())
JsonParse(raw) ==
    IF raw.wf THEN [ok |-> TRUE, data |-> raw.data] ELSE [ok |-> FALSE]

\* ResolveDevice without the fallback to the envelope's device
ResolveDeviceKeep(item, device) == item

\* item.device = item.device || device
ResolveDevice(item, device) == [item EXCEPT !.device = OrElse(item.device, device)]

\* data.items || [data]
EnvelopeItems(data) ==
    IF data.hasItems THEN data.items
    ELSE <<[sensor |-> data.sensor, device |-> data.device, value |-> data.value]>>

Nothing == [effects |-> <<>>, calls |-> <<>>, threw |-> FALSE]

\* ForEachItem with a filter that drops the items of a kind updateSensor has no case for
RECURSIVE ForEachKnownItem(_, _, _, _)
ForEachKnownItem(items, k, device, cbs) ==
    IF k > Len(items) THEN Nothing
    ELSE IF SensorUpdater(items[k].sensor) = Undefined
    THEN ForEachKnownItem(items, k + 1, device, cbs)
    ELSE LET r == Fire(cbs, "onSensorData", ResolveDevice(items[k], device), k)
         IN IF r.threw THEN r
            ELSE LET rest == ForEachKnownItem(items, k + 1, device, cbs)
                 IN [effects |-> r.effects \o rest.effects,
                     calls |-> r.calls \o rest.calls,
                     threw |-> rest.threw]

\* items.forEach(...), from the k-th item on: an exception leaves the loop
RECURSIVE ForEachItem(_, _, _, _)
ForEachItem(items, k, device, cbs) ==
    IF k > Len(items) THEN Nothing
    ELSE LET r == Fire(cbs, "onSensorData", ResolveDevice(items[k], device), k)
         IN IF r.threw THEN r
            ELSE LET rest == ForEachItem(items, k + 1, device, cbs)
                 IN [effects |-> r.effects \o rest.effects,
                     calls |-> r.calls \o rest.calls,
                     threw |-> rest.threw]

\* HandleMessage that takes every other topic for the person-count topic
HandleMessageDefault(topic, data) ==
    IF topic = TopicSensors
    THEN ForEachItem(EnvelopeItems(data), 1, data.device, callbacks["onSensorData"])
    ELSE IF topic = TopicAlarmState
    THEN Fire(callbacks["onAlarmState"], "onAlarmState", data, 1)
    ELSE Fire(callbacks["onPersonCount"], "onPersonCount", data, 1)

\* _handleMessage(topic, data)
HandleMessage(topic, data) ==
    IF topic = TopicSensors
    THEN ForEachItem(EnvelopeItems(data), 1, data.device, callbacks["onSensorData"])
    ELSE IF topic = TopicAlarmState
    THEN Fire(callbacks["onAlarmState"], "onAlarmState", data, 1)
    ELSE IF topic = TopicPersonCount
    THEN Fire(callbacks["onPersonCount"], "onPersonCount", data, 1)
    ELSE Nothing

\* TMessage without the try/catch: what JSON.parse or a listener throws escapes
TMessageNoCatch(c, topic, raw) ==
    /\ c \in 1..Len(online)
    /\ online[c]
    /\ LET parsed == JsonParse(raw)
           r == IF parsed.ok THEN HandleMessage(topic, parsed.data) ELSE Nothing
       IN /\ effects' = r.effects
          /\ fired' = r.calls
          /\ SetDash(ApplyCalls(DashState, r.calls, now))
          /\ uncaught' = (~parsed.ok \/ r.threw)
    /\ lastOp' = [op |-> "message", c |-> c, topic |-> topic, raw |-> raw]
    /\ UNCHANGED <<connVars, callbacks, cmdVars>>

\* client.on("message", ...), run for transport client c: whatever is thrown
\* inside the try block, by JSON.parse or by a listener, is caught and logged
TMessage(c, topic, raw) ==
    /\ c \in 1..Len(online)
    /\ online[c]
    /\ LET parsed == JsonParse(raw)
           r == IF parsed.ok THEN HandleMessage(topic, parsed.data) ELSE Nothing
       IN /\ effects' = r.effects
          /\ fired' = r.calls
          /\ SetDash(ApplyCalls(DashState, r.calls, now))
    /\ uncaught' = FALSE
    /\ lastOp' = [op |-> "message", c |-> c, topic |-> topic, raw |-> raw]
    /\ UNCHANGED <<connVars, callbacks, cmdVars>>

(* ------------------------------ outbound ------------------------------ *)

\* PublishCommand with the guard (!this.client && !this.connected)
PublishCommandAnd(target, command, params) ==
    /\ nextCmd < MaxCmds
    /\ nextCmd' = nextCmd + 1
    /\ attempts' = Append(attempts, [id |-> nextCmd + 1, client |-> client, connected |-> connected,
                                     target |-> target, command |-> command, params |-> params])
    /\ published' = IF client = 0 /\ ~connected
                    THEN published
                    ELSE Append(published,
                            [client |-> client, topic |-> TopicWebCommand, id |-> nextCmd + 1,
                             payload |-> JsonStringify(JObj(<<
                                 <<"target", target>>,
                                 <<"command", command>>,
                                 <<"params", IF TruthyValue(params) THEN params ELSE JObj(<<>>)>> >>))])
    /\ lastOp' = [op |-> "publishCommand", id |-> nextCmd + 1]
    /\ effects' = <<>>
    /\ fired' = <<>>
    /\ uncaught' = FALSE
    /\ SetDash(DashState)
    /\ UNCHANGED <<connVars, callbacks>>

\* PublishCommand that passes params on as it was given
PublishCommandRawParams(target, command, params) ==
    /\ nextCmd < MaxCmds
    /\ nextCmd' = nextCmd + 1
    /\ attempts' = Append(attempts, [id |-> nextCmd + 1, client |-> client, connected |-> connected,
                                     target |-> target, command |-> command, params |-> params])
    /\ published' = IF client = 0 \/ ~connected
                    THEN published
                    ELSE Append(published,
                            [client |-> client, topic |-> TopicWebCommand, id |-> nextCmd + 1,
                             payload |-> JsonStringify(JObj(<<
                                 <<"target", target>>,
                                 <<"command", command>>,
                                 <<"params", params>> >>))])
    /\ lastOp' = [op |-> "publishCommand", id |-> nextCmd + 1]
    /\ effects' = <<>>
    /\ fired' = <<>>
    /\ uncaught' = FALSE
    /\ SetDash(DashState)
    /\ UNCHANGED <<connVars, callbacks>>

\* publishCommand(target, command, params)
PublishCommand(target, command, params) ==
    /\ nextCmd < MaxCmds
    /\ nextCmd' = nextCmd + 1
    /\ attempts' = Append(attempts, [id |-> nextCmd + 1, client |-> client, connected |-> connected,
                                     target |-> target, command |-> command, params |-> params])
    /\ published' = IF client = 0 \/ ~connected
                    THEN published
                    ELSE Append(published,
                            [client |-> client, topic |-> TopicWebCommand, id |-> nextCmd + 1,
                             payload |-> JsonStringify(JObj(<<
                                 <<"target", target>>,
                                 <<"command", command>>,
                                 <<"params", IF TruthyValue(params) THEN params ELSE JObj(<<>>)>> >>))])
    /\ lastOp' = [op |-> "publishCommand", id |-> nextCmd + 1]
    /\ effects' = <<>>
    /\ fired' = <<>>
    /\ uncaught' = FALSE
    /\ SetDash(DashState)
    /\ UNCHANGED <<connVars, callbacks>>

(* ------------------------- the Dashboard's clock ---------------------- *)

\* the onSensorData listener of the application, called with one item
DashSensor(item) ==
    /\ SetDash(UpdateSensor(DashState, item, now))
    /\ lastOp' = [op |-> "updateSensor", item |-> item]
    /\ effects' = <<>>
    /\ fired' = <<>>
    /\ uncaught' = UpdateSensorThrows(item)
    /\ UNCHANGED <<connVars, callbacks, cmdVars>>

\* the onPersonCount listener of the application, called with one payload
DashPersonCount(data) ==
    /\ SetDash(UpdatePersonCount(DashState, data))
    /\ lastOp' = [op |-> "updatePersonCount", data |-> data]
    /\ effects' = <<>>
    /\ fired' = <<>>
    /\ uncaught' = PersonCountThrows(data)
    /\ UNCHANGED <<connVars, callbacks, cmdVars>>

\* setInterval(() => dashboard.refreshTimestamps(), 5000)
Tick ==
    /\ SetDash(RefreshTimestamps(DashState, now))
    /\ lastOp' = [op |-> "tick", at |-> now, before |-> piStatus]
    /\ effects' = <<>>
    /\ fired' = <<>>
    /\ uncaught' = FALSE
    /\ UNCHANGED <<connVars, callbacks, cmdVars>>

\* time passes
Advance(d) ==
    /\ now + d <= MaxNow
    /\ now' = now + d
    /\ UNCHANGED <<connVars, callbacks, cmdVars, lastOp, effects, fired, uncaught,
                   lastUpdate, piStatus, statusCalls, dispatched, timer, lastTimerAction>>

(* --------------------------- specifications --------------------------- *)

\* new SmartHomeMQTT(CONFIG), new Dashboard()
Init ==
    /\ client = 0
    /\ online = <<>>
    /\ subs = <<>>
    /\ connected = FALSE
    /\ callbacks = [k \in EventKinds |-> <<>>]
    /\ lastOp = [op |-> "new"]
    /\ effects = <<>>
    /\ fired = <<>>
    /\ uncaught = FALSE
    /\ published = <<>>
    /\ attempts = <<>>
    /\ nextCmd = 0
    /\ now = 0
    /\ lastUpdate = [d \in DeviceIds |-> Null]
    /\ piStatus = [e \in StatusElements |-> ""]
    /\ statusCalls = <<>>
    /\ dispatched = <<>>
    /\ timer = [text |-> Undefined, blink |-> Undefined]
    /\ lastTimerAction = Undefined

\* The inbound path: one session, the registry with plain listeners for every
\* event kind, and the router on every topic.
Next ==
    \/ client = 0 /\ Connect
    \/ \E c \in 1..MaxClients : TConnect(c)
    \/ \E c \in 1..MaxClients : TClose(c)
    \/ \E c \in 1..MaxClients : TError(c)
    \/ \E c \in 1..MaxClients, topic \in InboundTopics : \E raw \in RawPayloads(topic) :
          TMessage(c, topic, raw)
    \/ \E event \in EventNames, cb \in {"plain", "thrower"} : On(event, cb)

Spec == Init /\ [][Next]_vars

\* The sensor path: one session, the sensor-data listeners (the Dashboard's
\* among them) and every sensor payload.
NextSensors ==
    \/ client = 0 /\ Connect
    \/ \E c \in 1..MaxClients : TConnect(c)
    \/ \E c \in 1..MaxClients, raw \in SensorPayloads : TMessage(c, TopicSensors, raw)
    \/ \E cb \in Listeners : On("onSensorData", cb)

SpecSensors == Init /\ [][NextSensors]_vars

\* The connection's life and the outbound path: connect() any number of times.
NextConn ==
    \/ Connect
    \/ \E c \in 1..MaxClients : TConnect(c)
    \/ \E c \in 1..MaxClients : TClose(c)
    \/ \E c \in 1..MaxClients : TError(c)
    \/ \E params \in CommandParams : PublishCommand(JStr("PI1"), JStr("arm"), params)

SpecConn == Init /\ [][NextConn]_vars

\* The Dashboard under its two timing sources: readings and the refresh timer.
DashItems == [sensor : {"DS1", "ZZZ"}, device : {Undefined, "PI1", "PI2", "PI4"}, value : {JNum(1)}]

NextDash ==
    \/ \E item \in DashItems : DashSensor(item)
    \/ Tick
    \/ \E d \in ClockSteps : Advance(d)

SpecDash == Init /\ [][NextDash]_vars

\* The overview path: one session, the listeners (the Dashboard's among them)
\* of the alarm state and the person count, and the payloads of their topics.
NextOverview ==
    \/ client = 0 /\ Connect
    \/ \E c \in 1..MaxClients : TConnect(c)
    \/ \E c \in 1..MaxClients, topic \in {TopicAlarmState, TopicPersonCount} :
          \E raw \in OverviewPayloads(topic) : TMessage(c, topic, raw)
    \/ \E event \in {"onAlarmState", "onPersonCount"}, cb \in Listeners : On(event, cb)

SpecOverview == Init /\ [][NextOverview]_vars

\* The Dashboard's reading of values: the boolean-like sensor kinds, the
\* colour light, the countdown timer and the person count, each applied to
\* every value drawn for it.
NextView ==
    \/ \E item \in ViewItems \cup RGBItems : DashSensor(item)
    \/ \E item \in TimerItems : DashSensor(item)
    \/ \E data \in PersonPayloads : DashPersonCount(data)

SpecView == Init /\ [][NextView]_vars

(* ------------------------------- claims ------------------------------- *)

\* The _fire calls and the client.subscribe calls of the last operation.
Emitted == SelectSeq(effects, LAMBDA x : x.call = "_fire")

SubCalls == SelectSeq(effects, LAMBDA x : x.call = "subscribe")

Invoked(e, j) == \E n \in 1..Len(fired) : fired[n].eix = e /\ fired[n].pos = j

\* The last operation was the message handler, given a well-formed payload on the sensor topic.
SensorMessage ==
    /\ lastOp.op = "message"
    /\ lastOp.topic = TopicSensors
    /\ lastOp.raw.wf

\* The sensor kinds the dispatch knows.
KnownSensors ==
    {"DHT1", "DHT2", "DHT3", "DPIR1", "DPIR2", "DPIR3", "DS1", "DS2", "DUS1", "DUS2",
     "DL", "DB", "BRGB", "GSG", "4SD"}

\* C1: a listener that throws during a fan-out does not keep the listeners
\* registered after it for that event kind from being invoked with the same
\* event: for every event fired and every throwing listener A registered
\* before a listener B, B is invoked for that event.
C1_ThrowingListenerIsolated ==
    \A e \in 1..Len(Emitted) :
        LET cbs == callbacks[Emitted[e].event]
        IN \A i \in 1..Len(cbs), j \in 1..Len(cbs) :
              (i < j /\ Throws(cbs[i])) => Invoked(e, j)

\* C2: for a sensor message, flat or batched, whose envelope carries a device,
\* every item handed to a sensorData listener has a non-empty device: its own
\* when it has one, the envelope's otherwise.
C2_DeviceResolved ==
    (SensorMessage /\ Truthy(lastOp.raw.data.device)) =>
        \A n \in 1..Len(fired) :
            LET own == EnvelopeItems(lastOp.raw.data)[fired[n].eix].device
                got == fired[n].data.device
            IN /\ got # Undefined
               /\ got # ""
               /\ got = (IF own # Undefined /\ own # "" THEN own ELSE lastOp.raw.data.device)

\* Reached: a batch from PI1 delivered with one item that named PI2 itself and
\* one whose device was the empty string and became PI1.
C2_Witness ==
    /\ SensorMessage
    /\ lastOp.raw.data.device = "PI1"
    /\ \E n \in 1..Len(fired), m \in 1..Len(fired) :
          /\ EnvelopeItems(lastOp.raw.data)[fired[n].eix].device = ""
          /\ fired[n].data.device = "PI1"
          /\ EnvelopeItems(lastOp.raw.data)[fired[m].eix].device = "PI2"
          /\ fired[m].data.device = "PI2"

ValidMessages ==
    {m \in UNION {{topic} \X RawPayloads(topic) : topic \in ConfigTopics} : m[2].wf}

\* C4: a message whose payload is not valid JSON, on any topic, fires no event,
\* lets nothing escape the message handler and leaves the router as it was:
\* the registry, the connection and the Dashboard are unchanged, so that every
\* valid message produces after it exactly what it would have produced before.
C4_MalformedDropped ==
    [][(lastOp'.op = "message" /\ ~lastOp'.raw.wf) =>
          /\ effects' = <<>>
          /\ fired' = <<>>
          /\ ~uncaught'
          /\ UNCHANGED <<callbacks, connVars, cmdVars, dashVars>>
          /\ \A m \in ValidMessages :
                HandleMessage(m[1], m[2].data)' = HandleMessage(m[1], m[2].data)]_vars

\* Reached: a malformed payload arrived on the sensor topic while a listener
\* was registered for sensor data.
C4_Witness ==
    /\ lastOp.op = "message"
    /\ ~lastOp.raw.wf
    /\ lastOp.topic = TopicSensors
    /\ callbacks["onSensorData"] # <<>>

\* C5 as stated: on every transport-reported connected event the handler
\* subscribes to exactly four fixed topics and then emits exactly one connect
\* event with no payload.
C5_SubscribesFourTopics ==
    lastOp.op = "connect" =>
        /\ Len(SubCalls) = 4
        /\ Cardinality({SubCalls[i].topic : i \in 1..Len(SubCalls)}) = 4
        /\ Len(Emitted) = 1
        /\ effects[Len(effects)] = [call |-> "_fire", event |-> "onConnect", data |-> Undefined]

\* C5, amended: on every transport-reported connected event the handler
\* subscribes to exactly three fixed topics (sensors, alarm state, person
\* count) and then emits exactly one connect event with no payload.
C5_SubscribesThreeTopics ==
    lastOp.op = "connect" =>
        /\ Len(effects) = 4
        /\ effects[1] = [call |-> "subscribe", client |-> client, topic |-> "iot/sensors"]
        /\ effects[2] = [call |-> "subscribe", client |-> client, topic |-> "iot/alarm/state"]
        /\ effects[3] = [call |-> "subscribe", client |-> client, topic |-> "iot/home/person_count"]
        /\ effects[4] = [call |-> "_fire", event |-> "onConnect", data |-> Undefined]

\* Reached: the connect handler ran for the second transport client, made its
\* subscribe calls and emitted its event.
C5_Witness ==
    /\ lastOp.op = "connect"
    /\ lastOp.c = 2
    /\ Len(SubCalls) = 3
    /\ Len(Emitted) = 1
    /\ connected

\* C6: connect() is idempotent per session: however often it is called, one
\* transport client has the handlers attached, and a message the broker sends
\* on a subscribed topic reaches the listeners through one client only.
C6_ConnectIdempotent ==
    /\ Len(online) <= 1
    /\ \A topic \in ConfigTopics :
          Cardinality({c \in 1..Len(online) : online[c] /\ topic \in subs[c]}) <= 1

\* C7: publishCommand called while the connection manager is not connected
\* (no client yet, or this.connected false: before the transport reported
\* connected, or after a close) publishes nothing and raises nothing, and the
\* command is not published later either, whatever reconnects follow.
C7_NotConnectedDiscards ==
    /\ \A a \in 1..Len(attempts) :
          (attempts[a].client = 0 \/ ~attempts[a].connected) =>
              \A p \in 1..Len(published) : published[p].id # attempts[a].id
    /\ lastOp.op = "publishCommand" => ~uncaught

\* Reached: a command was discarded after a close, the transport reconnected,
\* and the next command was published.
C7_Witness ==
    /\ Len(attempts) = 2
    /\ attempts[1].client # 0
    /\ ~attempts[1].connected
    /\ Len(published) = 1
    /\ published[1].id = 2
    /\ connected

\* C8: with t0 the time of the device's most recent reading, a tick at time now
\* reports the device online iff now - t0 < 30 seconds, for each of the devices
\* the tick evaluates (PI1, PI2, PI3), under any interleaving of readings and
\* ticks.
C8_OnlineIffRecent ==
    lastOp.op = "tick" =>
        /\ \A n \in 1..Len(statusCalls) :
              /\ lastUpdate[statusCalls[n].device] >= 0
              /\ statusCalls[n].online <=>
                     (lastOp.at - lastUpdate[statusCalls[n].device] < 30 * 1000)
        /\ \A d \in {"PI1", "PI2", "PI3"} :
              lastUpdate[d] >= 0 => \E n \in 1..Len(statusCalls) : statusCalls[n].device = d

\* Reached: one tick reports PI1, last seen 29.999 s ago, online and PI2, last
\* seen 30 s or more ago, offline.
C8_Witness ==
    /\ lastOp.op = "tick"
    /\ lastOp.at - lastUpdate["PI1"] = 29999
    /\ lastUpdate["PI2"] >= 0
    /\ lastOp.at - lastUpdate["PI2"] >= 30000
    /\ \E n \in 1..Len(statusCalls) : statusCalls[n] = [device |-> "PI1", online |-> TRUE]
    /\ \E n \in 1..Len(statusCalls) : statusCalls[n] = [device |-> "PI2", online |-> FALSE]

StatusText(isOnline) == IF isOnline THEN "Online" ELSE "Offline"

\* C9 as stated: a tick produces a liveness notification for a device only
\* when the device's online boolean differs from its previous evaluation.
C9_NotifiesOnlyOnChange ==
    lastOp.op = "tick" =>
        \A n \in 1..Len(statusCalls) :
            lastOp.before[ToLower(statusCalls[n].device)] # StatusText(statusCalls[n].online)

\* C9, amended: a tick produces exactly one liveness notification for each of
\* PI1, PI2, PI3 that has a recorded reading, whether or not its online boolean
\* differs from its previous evaluation, and none for any other device.
C9_NotifiesEveryTrackedDevice ==
    lastOp.op = "tick" =>
        \A d \in DeviceIds :
            Cardinality({n \in 1..Len(statusCalls) : statusCalls[n].device = d})
                = IF d \in {"PI1", "PI2", "PI3"} /\ lastUpdate[d] >= 0 THEN 1 ELSE 0

\* Reached: a tick that notified PI1 online although PI1 was shown online before it.
C9_Witness ==
    /\ lastOp.op = "tick"
    /\ lastOp.before["pi1"] = "Online"
    /\ statusCalls = <<[device |-> "PI1", online |-> TRUE]>>

\* C10: every tick re-evaluates all known devices, whatever their identifier:
\* a tick at which a device that has sent a reading has been silent for 30
\* seconds or more reports that device offline.
C10_SilentDeviceReportedOffline ==
    lastOp.op = "tick" =>
        \A d \in DeviceIds :
            (lastUpdate[d] >= 0 /\ lastOp.at - lastUpdate[d] >= 30 * 1000) =>
                \E n \in 1..Len(statusCalls) :
                    statusCalls[n] = [device |-> d, online |-> FALSE]

\* C11: listeners registered for the same event kind are invoked in
\* registration order for every event of that kind: of two invocations made for
\* one event, the one of the listener registered earlier comes first (each
\* invocation is a synchronous call, complete before the next begins), and the
\* invocation at a position is of the listener registered at that position.
C11_RegistrationOrder ==
    /\ \A n \in 1..Len(fired) :
          /\ fired[n].event \in DOMAIN callbacks
          /\ fired[n].pos \in 1..Len(callbacks[fired[n].event])
          /\ fired[n].cb = callbacks[fired[n].event][fired[n].pos]
    /\ \A n \in 1..Len(fired), m \in 1..Len(fired) :
          (fired[n].eix = fired[m].eix /\ fired[n].pos < fired[m].pos) => n < m

\* Reached: "plain" was registered for sensor data before "thrower", one event
\* was fired, and both were invoked, "plain" first.
C11_Witness ==
    /\ lastOp.op = "message"
    /\ callbacks["onSensorData"] = <<"plain", "thrower">>
    /\ Len(Emitted) = 1
    /\ Len(fired) = 2
    /\ fired[1].cb = "plain"
    /\ fired[2].cb = "thrower"

\* The items a sensor message carries, each with its device resolved.
ResolvedItems(data) ==
    [k \in 1..Len(EnvelopeItems(data)) |-> ResolveDevice(EnvelopeItems(data)[k], data.device)]

\* The items handed, in order, to the listener registered at position j during the last operation.
SeenBy(j) ==
    LET mine == SelectSeq(fired, LAMBDA x : x.pos = j)
    IN [n \in 1..Len(mine) |-> mine[n].data]

\* C12: the items of a sensor batch are delivered to the sensorData listeners
\* in array order, one notification per item per registration, all within the
\* handling of their message: the sequence of items each registered listener
\* sees for a message is the sequence of the message's items.
C12_BatchDeliveredInOrder ==
    SensorMessage =>
        \A j \in 1..Len(callbacks["onSensorData"]) :
            SeenBy(j) = ResolvedItems(lastOp.raw.data)

\* C13: on() with an event name outside the five fixed kinds never creates a
\* kind: the registry's kinds are always exactly the five initial ones, such a
\* call leaves every listener list as it was and invokes nothing, and every
\* invocation is of a listener in the list of one of the five kinds, so the
\* listener passed with the unknown name is never invoked for any event.
C13_UnknownKindNotCreated ==
    /\ [](/\ DOMAIN callbacks = EventKinds
          /\ \A n \in 1..Len(fired) :
                /\ fired[n].event \in EventKinds
                /\ fired[n].cb = callbacks[fired[n].event][fired[n].pos])
    /\ [][(lastOp'.op = "on" /\ lastOp'.event \notin EventKinds) =>
             /\ callbacks' = callbacks
             /\ fired' = <<>>
             /\ effects' = <<>>]_vars

\* Reached: on("onFoo", ...) was called on a connected manager that has a
\* listener registered for sensor data.
C13_Witness ==
    /\ lastOp.op = "on"
    /\ lastOp.event = "onFoo"
    /\ lastOp.cb = "thrower"
    /\ callbacks["onSensorData"] = <<"plain">>
    /\ connected

\* The invocations the last operation made, for its e-th event, of the listener cb.
InvocationsOf(e, cb) == {n \in 1..Len(fired) : fired[n].eix = e /\ fired[n].cb = cb}

\* C14: fan-out invokes each registration exactly once per emitted event: for
\* every event emitted, every position of the kind's list is invoked exactly
\* once, so a listener registered k times for the kind is invoked exactly k
\* times for the event (no deduplication) and no registration twice.
C14_EachRegistrationOnce ==
    \A e \in 1..Len(Emitted) :
        LET cbs == callbacks[Emitted[e].event]
        IN /\ \A j \in 1..Len(cbs) :
                 Cardinality({n \in 1..Len(fired) : fired[n].eix = e /\ fired[n].pos = j}) = 1
           /\ \A cb \in Listeners :
                 Cardinality(InvocationsOf(e, cb))
                     = Cardinality({j \in 1..Len(cbs) : cbs[j] = cb})

\* C15: on every transport-reported close the manager sets this.connected to
\* false and emits exactly one disconnect event; this.connected is true exactly
\* when the most recent transport lifecycle event was a connect (a connect
\* sets it, a close clears it, nothing else changes it), so whenever it is true
\* a transport client exists whose last lifecycle event was a connect.
C15_ConnectedTracksLifecycle ==
    /\ [](connected => \E c \in 1..Len(online) : online[c])
    /\ [][/\ lastOp'.op = "close" =>
                /\ ~connected'
                /\ effects' = <<[call |-> "_fire", event |-> "onDisconnect", data |-> Undefined]>>
          /\ lastOp'.op = "connect" => connected'
          /\ lastOp'.op \notin {"connect", "close"} => connected' = connected]_vars

\* Reached: both transport clients had reported connected, and the first one
\* has now reported close: one disconnect event, this.connected false.
C15_Witness ==
    /\ lastOp.op = "close"
    /\ lastOp.c = 1
    /\ online = <<FALSE, TRUE>>
    /\ Len(Emitted) = 1
    /\ ~connected

\* C16: publishCommand(target, command, params) called while connected
\* publishes exactly one message, to the topic iot/web/command, whose body is
\* the text of {target, command, params} with params replaced by an empty
\* object when it was left out; nothing is ever published to another topic.
C16_PublishesOneCommand ==
    /\ \A a \in 1..Len(attempts) :
          (attempts[a].client # 0 /\ attempts[a].connected) =>
              /\ Cardinality({p \in 1..Len(published) : published[p].id = attempts[a].id}) = 1
              /\ \A p \in 1..Len(published) :
                    published[p].id = attempts[a].id =>
                        /\ published[p].client = attempts[a].client
                        /\ published[p].payload.wf
                        /\ published[p].payload.data =
                              [type |-> "object",
                               props |-> << <<"target", attempts[a].target>>,
                                            <<"command", attempts[a].command>>,
                                            <<"params",
                                              IF attempts[a].params = [type |-> "undefined"]
                                              THEN [type |-> "object", props |-> <<>>]
                                              ELSE attempts[a].params>> >>]
    /\ \A p \in 1..Len(published) : published[p].topic = "iot/web/command"

\* Reached: two commands published while connected, the first with params
\* left out and sent as an empty object, the second with its params object.
C16_Witness ==
    /\ Len(attempts) = 2
    /\ Len(published) = 2
    /\ attempts[1].params = JUndefined
    /\ Get(published[1].payload.data, "params") = JObj(<<>>)
    /\ Get(published[2].payload.data, "params") = JObj(<< <<"pin", JStr("1234")>> >>)

\* C17: person-count normalization: the payloads 7, "7" and {"count": 7} all
\* normalize to 7, an unparsable payload such as "abc" normalizes to the
\* unknown sentinel (shown as "?") without raising, and the normalization
\* raises for no decoded JSON payload.
C17_PersonCountNormalized ==
    lastOp.op = "updatePersonCount" =>
        /\ ~uncaught
        /\ Len(dispatched) = 1
        /\ lastOp.data \in {[type |-> "number", n |-> 7],
                            [type |-> "string", s |-> "7"],
                            [type |-> "object",
                             props |-> << <<"count", [type |-> "number", n |-> 7]>> >>]}
              => dispatched[1].state = [type |-> "number", n |-> 7]
        /\ lastOp.data = [type |-> "string", s |-> "abc"]
              => dispatched[1].state = [type |-> "string", s |-> "?"]

\* C18: for every boolean-like sensor kind (motion DPIR1-3, door DS1-2, the
\* on/off actuators DL and DB) the raw values 1 and true yield the same derived
\* state, active/open/on, and every other raw value (0, false, 2, "1", null,
\* an object) yields inactive/closed/off.
C18_BooleanLikeValues ==
    (lastOp.op = "updateSensor"
     /\ lastOp.item.sensor \in {"DPIR1", "DPIR2", "DPIR3", "DS1", "DS2", "DL", "DB"}) =>
        LET kind == lastOp.item.sensor
            active == lastOp.item.value \in {[type |-> "number", n |-> 1],
                                             [type |-> "boolean", b |-> TRUE]}
            text == IF kind \in {"DPIR1", "DPIR2", "DPIR3"}
                    THEN (IF active THEN "MOTION" ELSE "CLEAR")
                    ELSE IF kind \in {"DS1", "DS2"}
                    THEN (IF active THEN "OPEN" ELSE "CLOSED")
                    ELSE (IF active THEN "ON" ELSE "OFF")
        IN /\ Len(dispatched) = 1
           /\ dispatched[1].sensor = kind
           /\ dispatched[1].state = [type |-> "string", s |-> text]
           /\ ~uncaught

\* Reached: the DL actuator was given the string "1" and shown OFF.
C18_Witness ==
    /\ lastOp.op = "updateSensor"
    /\ lastOp.item.sensor = "DL"
    /\ lastOp.item.value = JStr("1")
    /\ dispatched = <<[updater |-> "_updateOnOff", sensor |-> "DL", state |-> JStr("OFF")]>>

\* The last operation was the message handler, given a state label, bare or
\* wrapped, on the alarm topic.
AlarmMessage ==
    /\ lastOp.op = "message"
    /\ lastOp.topic = TopicAlarmState
    /\ lastOp.raw.wf
    /\ \E S \in AlarmStates :
          lastOp.raw.data \in {[type |-> "string", s |-> S],
                               [type |-> "object",
                                props |-> << <<"state", [type |-> "string", s |-> S]>> >>]}

\* C19: for every state label S in {DISARMED, ARMING, ARMED, GRACE, ALARMING},
\* the bare string payload S and the wrapper payload {"state": S} yield the
\* same normalized state S, and each alarm-topic message produces exactly one
\* alarmState notification per registration.
C19_AlarmStateNormalized ==
    AlarmMessage =>
        LET S == CHOOSE S \in AlarmStates :
                    lastOp.raw.data \in {[type |-> "string", s |-> S],
                                         [type |-> "object",
                                          props |-> << <<"state", [type |-> "string", s |-> S]>> >>]}
            cbs == callbacks["onAlarmState"]
        IN /\ \A j \in 1..Len(cbs) :
                 Cardinality({n \in 1..Len(fired) : fired[n].pos = j}) = 1
           /\ Len(dispatched) = Cardinality({j \in 1..Len(cbs) : cbs[j] = "dash"})
           /\ \A n \in 1..Len(dispatched) :
                 dispatched[n].state = [type |-> "string", s |-> S]

\* C20: a well-formed message on a topic that is none of the sensor,
\* alarm-state and person-count topics fires no event of any kind, lets nothing
\* escape the handler, and leaves the connection status, the listener lists
\* and the liveness state unchanged.
C20_UnknownTopicDropped ==
    [][(/\ lastOp'.op = "message"
        /\ lastOp'.raw.wf
        /\ lastOp'.topic \notin {"iot/sensors", "iot/alarm/state", "iot/home/person_count"}) =>
          /\ effects' = <<>>
          /\ fired' = <<>>
          /\ ~uncaught'
          /\ dispatched' = <<>>
          /\ statusCalls' = <<>>
          /\ UNCHANGED <<connVars, callbacks, dashVars, cmdVars>>]_vars

\* Reached: a well-formed message arrived on iot/other while listeners were
\* registered for sensor data and for the person count.
C20_Witness ==
    /\ lastOp.op = "message"
    /\ lastOp.raw.wf
    /\ lastOp.topic = "iot/other"
    /\ callbacks["onSensorData"] # <<>>
    /\ callbacks["onPersonCount"] # <<>>
    /\ effects = <<>>

\* The fraction a channel of the last colour item carries, 0 for a missing one.
FractionOf(key) ==
    IF HasOwn(lastOp.item.value, key) THEN Get(lastOp.item.value, key) ELSE JNum(0)

\* C21: colour decode rescales each 0.0-1.0 channel fraction to the integer
\* round(fraction * 255): {r: 1, g: 0.5, b: 0} yields (255, 128, 0), a missing
\* channel is treated as 0, and for every fraction in [0, 1] the resulting
\* channel is an integer in 0..255, the one nearest to fraction * 255.
C21_ColourRescaled ==
    (lastOp.op = "updateSensor" /\ lastOp.item.sensor = "BRGB"
     /\ lastOp.item.value.type = "object") =>
        /\ Len(dispatched) = 1
        /\ ~uncaught
        /\ \A key \in {"r", "g", "b"} :
              LET f == FractionOf(key)
                  ch == Get(dispatched[1].state, key)
              IN /\ ch.type = "number"
                 /\ ch.n \in 0..255
                 /\ 2 * Denom(f) * ch.n <= 2 * 255 * Numer(f) + Denom(f)
                 /\ 2 * 255 * Numer(f) + Denom(f) < 2 * Denom(f) * (ch.n + 1)
                 /\ ~HasOwn(lastOp.item.value, key) => ch.n = 0
        /\ lastOp.item.value = [type |-> "object",
                                props |-> << <<"r", [type |-> "number", n |-> 1]>>,
                                             <<"g", [type |-> "number", num |-> 1, den |-> 2]>>,
                                             <<"b", [type |-> "number", n |-> 0]>> >>]
              => dispatched[1].state = [type |-> "object",
                                        props |-> << <<"r", [type |-> "number", n |-> 255]>>,
                                                     <<"g", [type |-> "number", n |-> 128]>>,
                                                     <<"b", [type |-> "number", n |-> 0]>> >>]

\* Reached: the colour {r: 1, g: 0.5} with no b channel was shown as rgb(255,128,0).
C21_Witness ==
    /\ lastOp.op = "updateSensor"
    /\ lastOp.item.sensor = "BRGB"
    /\ lastOp.item.value = JObj(<< <<"r", JNum(1)>>, <<"g", JFrac(1, 2)>> >>)
    /\ Get(dispatched[1].state, "r") = JNum(255)
    /\ Get(dispatched[1].state, "g") = JNum(128)
    /\ Get(dispatched[1].state, "b") = JNum(0)

\* C22: a transport-reported error is only logged: it leaves this.connected,
\* this.client and every listener list unchanged and fires no connect or
\* disconnect event, so a publishCommand that follows an error on a session
\* that was connected before it is still published.
C22_ErrorOnlyLogged ==
    [][/\ lastOp'.op = "error" =>
             /\ UNCHANGED <<connected, client, online, subs, callbacks, cmdVars, dashVars>>
             /\ effects' = <<>>
             /\ fired' = <<>>
             /\ ~uncaught'
       /\ (lastOp.op = "error" /\ connected /\ lastOp'.op = "publishCommand") =>
             /\ Len(published') = Len(published) + 1
             /\ published'[Len(published')].id = lastOp'.id
             /\ published'[Len(published')].client = client]_vars

\* Reached: the transport client of a connected session that has published a
\* command reported an error, and the session is still connected.
C22_Witness ==
    /\ lastOp.op = "error"
    /\ lastOp.c = client
    /\ connected
    /\ online[client]
    /\ Len(published) = 1

\* the last operation was updateSensor on a countdown-timer item
TimerOp(op) == op.op = "updateSensor" /\ op.item.sensor = "4SD"

\* C23: the timer display blinks exactly when the newest timer item with a
\* recognised action was blink_start; a show_time or blink_stop item clears
\* the blink flag, a show_time item sets the text to the item's display string
\* ("00:00" when it has none), and an item with any other action leaves text
\* and blink flag as they were.
C23_TimerBlink ==
    /\ [](lastTimerAction # Undefined =>
             (timer.blink = "added" <=> lastTimerAction = "blink_start"))
    /\ [][TimerOp(lastOp') =>
             LET item == lastOp'.item
             IN /\ item.action = "blink_start" => timer'.blink = "added"
                /\ item.action \in {"show_time", "blink_stop"} => timer'.blink = "removed"
                /\ item.action = "show_time" =>
                      timer'.text = (IF item.display \in {Undefined, ""} THEN "00:00"
                                     ELSE item.display)
                /\ item.action \in RecognisedTimerActions => lastTimerAction' = item.action
                /\ item.action \notin RecognisedTimerActions =>
                      UNCHANGED <<timer, lastTimerAction>>]_vars

\* a show_time item with a display string was the last reading: the string
\* is shown and the blink flag is cleared
C23_Witness ==
    /\ TimerOp(lastOp)
    /\ lastOp.item.action = "show_time"
    /\ lastOp.item.display = "01:30"
    /\ timer = [text |-> "01:30", blink |-> "removed"]
    /\ lastTimerAction = "show_time"

\* C24: updateSensor on a reading with a device, whatever its sensor kind,
\* sets the device's last-seen to the current time and marks it online at once
\* (one _updatePiStatus(device, true) call, and the badge reads "Online" where
\* the page has one); on a reading without a device it leaves every last-seen
\* and every badge unchanged and makes no _updatePiStatus call.
C24_LivenessByDevice ==
    [][(lastOp'.op = "updateSensor" /\ now' = now) =>
          LET device == lastOp'.item.device
          IN IF Truthy(device)
             THEN /\ lastUpdate' = [lastUpdate EXCEPT ![device] = now]
                  /\ statusCalls' = <<[device |-> device, online |-> TRUE]>>
                  /\ \A e \in StatusElements :
                        piStatus'[e] = IF e = ToLower(device) THEN "Online" ELSE piStatus[e]
             ELSE /\ UNCHANGED <<lastUpdate, piStatus>>
                  /\ statusCalls' = <<>>]_vars

\* a reading of an unknown sensor kind from PI1 has just been handled, after
\* the clock had moved: no updater ran, PI1 is online with the current time as
\* its last-seen, and PI2, seen earlier, is still shown offline
C24_Witness ==
    /\ lastOp.op = "updateSensor"
    /\ lastOp.item.sensor = "ZZZ"
    /\ lastOp.item.device = "PI1"
    /\ dispatched = <<>>
    /\ now >= 30000
    /\ lastUpdate["PI1"] = now
    /\ lastUpdate["PI2"] >= 0
    /\ lastUpdate["PI2"] < now
    /\ piStatus["pi1"] = "Online"
    /\ piStatus["pi2"] = "Offline"

====
